---- MODULE Spec2Model ----
(***************************************************************************)
(* Model of the cryptocurrency tracker.                                    *)
(*                                                                         *)
(*   Spec        CryptoTracker.run (src/crypto_tracker.py): the bootstrap  *)
(*               report and the periodic fetch / process / analyze /       *)
(*               store / report / sleep loop, one action per step and      *)
(*               outcome.                                                  *)
(*   ReportSpec  ReportGenerator.generate_report and _cleanup_old_reports  *)
(*               (src/generate_report.py) over a small archive directory.  *)
(*                                                                         *)
(* Time in Spec is counted in minutes, time in ReportSpec in half days.    *)
(***************************************************************************)
EXTENDS Integers, Sequences, FiniteSets, TLC

VARIABLES
    \* ---- CryptoTracker.run ----
    pc,                 \* position of run()
    errors_count,       \* local errors_count
    last_report_time,   \* self.last_report_time (NoTime = None)
    current_time,       \* local current_time, captured at the top of the loop
    now,                \* the wall clock, datetime.now()
    update_interval,    \* parameter of run()
    \* ---- observations of the run (history variables) ----
    fetch_fails_in_row, \* failed fetch calls since the last successful one
    since_fetch,        \* "none": no fetch yet, "fetched": no sleep since the
                        \* last fetch call, "slept": a sleep since the last fetch
    cycle,              \* outcomes of the steps of the current loop iteration
    full_cycles,        \* iterations whose store succeeded (capped at 2)
    boot,               \* time recorded by the bootstrap report, NoTime if it failed
    gen_ok_time,        \* time stamped on the last successful generation
    last_attempt,       \* outcome of the most recent generate_report call
    stop_reason,        \* why the loop was left
    \* ---- ReportGenerator ----
    archive,            \* names of the files in reports/archive
    latest,             \* which generate_report call wrote latest_report.pdf
    rnow,               \* the wall clock of the report generator, in half days
    gen_calls,          \* generate_report calls made so far
    gen_result,         \* return value of the last generate_report call
    cleaned             \* the last step was a generation that ran the clean-up

trackerVars == <<pc, errors_count, last_report_time, current_time, now,
                 update_interval, fetch_fails_in_row, since_fetch, cycle,
                 full_cycles, boot, gen_ok_time, last_attempt, stop_reason>>
reportVars == <<archive, latest, rnow, gen_calls, gen_result, cleaned>>
vars == <<trackerVars, reportVars>>

\* ------------------------------------------------------------------ bounds
MaxTime == 11          \* the clock of Spec stops advancing here
MaxCount == 6          \* the exception path stops counting here
MaxCycleTicks == 1     \* minutes that may pass inside one loop iteration

\* ------------------------------------------------------- program constants
NoTime == -1                \* self.last_report_time = None
max_errors == 5             \* max_errors = 5
report_interval == 5        \* timedelta(minutes=5)
UpdateIntervals == {2, 5}   \* run(update_interval): 300 s, and a shorter one

LoopPcs == {"loop", "process", "analyze", "store", "report", "sleep"}

\* errors_count >= max_errors
TooManyErrors_Strict(n) == n > max_errors
TooManyErrors(n) == n >= max_errors

\* not self.last_report_time or current_time - self.last_report_time >= self.report_interval
ReportDue_Strict(lrt, ct) == lrt = NoTime \/ ct - lrt > report_interval
ReportDue(lrt, ct) == lrt = NoTime \/ ct - lrt >= report_interval

Last(s) == s[Len(s)]
ReportInvoked(c) == Len(c) > 0 /\ Last(c) \in {"report_ok", "report_failed"}

\* ------------------------------------------------------------ Init of Spec
ReportIdle ==
    /\ archive = {}
    /\ latest = 0
    /\ rnow = 0
    /\ gen_calls = 0
    /\ gen_result = FALSE
    /\ cleaned = FALSE

Init ==
    /\ pc = "init"
    /\ errors_count = 0
    /\ last_report_time = NoTime
    /\ current_time = 0
    /\ now = 0
    /\ update_interval \in UpdateIntervals
    /\ fetch_fails_in_row = 0
    /\ since_fetch = "none"
    /\ cycle = <<>>
    /\ full_cycles = 0
    /\ boot = NoTime
    /\ gen_ok_time = NoTime
    /\ last_attempt = "none"
    /\ stop_reason = "none"
    /\ ReportIdle

\* ------------------------------------------------- the bootstrap report
\* success = self.report_generator.generate_report(); if success: ... = datetime.now()
InitialReportOk ==
    /\ pc = "init"
    /\ last_report_time' = now
    /\ boot' = now
    /\ gen_ok_time' = now
    /\ last_attempt' = "ok"
    /\ pc' = "loop"
    /\ UNCHANGED <<errors_count, current_time, now, update_interval,
                   fetch_fails_in_row, since_fetch, cycle, full_cycles,
                   stop_reason, reportVars>>

InitialReportFails ==
    /\ pc = "init"
    /\ last_attempt' = "failed"
    /\ pc' = "loop"
    /\ UNCHANGED <<errors_count, last_report_time, current_time, now,
                   update_interval, fetch_fails_in_row, since_fetch, cycle,
                   full_cycles, boot, gen_ok_time, stop_reason, reportVars>>

\* ------------------------------------------------------------- the loop
\* current_time = datetime.now(); data = fetch_top_50_data(); if not data: ...
FetchFails ==
    /\ pc = "loop"
    /\ current_time' = now
    /\ errors_count' = errors_count + 1
    /\ fetch_fails_in_row' = fetch_fails_in_row + 1
    /\ since_fetch' = "fetched"
    /\ cycle' = <<"fetch_failed">>
    /\ IF TooManyErrors(errors_count')
         THEN pc' = "stopped" /\ stop_reason' = "errors"
         ELSE pc' = "loop" /\ UNCHANGED stop_reason
    /\ UNCHANGED <<last_report_time, now, update_interval, full_cycles, boot,
                   gen_ok_time, last_attempt, reportVars>>

FetchSucceeds ==
    /\ pc = "loop"
    /\ current_time' = now
    /\ fetch_fails_in_row' = 0
    /\ since_fetch' = "fetched"
    /\ cycle' = <<"fetch_ok">>
    /\ pc' = "process"
    /\ UNCHANGED <<errors_count, last_report_time, now, update_interval,
                   full_cycles, boot, gen_ok_time, last_attempt, stop_reason,
                   reportVars>>

\* df = self.process_data(data); if df is not None: ...
ProcessFails ==
    /\ pc = "process"
    /\ cycle' = Append(cycle, "transform_failed")
    /\ pc' = "sleep"
    /\ UNCHANGED <<errors_count, last_report_time, current_time, now,
                   update_interval, fetch_fails_in_row, since_fetch,
                   full_cycles, boot, gen_ok_time, last_attempt, stop_reason,
                   reportVars>>

ProcessSucceeds ==
    /\ pc = "process"
    /\ cycle' = Append(cycle, "transform_ok")
    /\ pc' = "analyze"
    /\ UNCHANGED <<errors_count, last_report_time, current_time, now,
                   update_interval, fetch_fails_in_row, since_fetch,
                   full_cycles, boot, gen_ok_time, last_attempt, stop_reason,
                   reportVars>>

\* analysis = self.analyze_data(df)
AnalyzeSucceeds ==
    /\ pc = "analyze"
    /\ cycle' = Append(cycle, "analyze_ok")
    /\ pc' = "store"
    /\ UNCHANGED <<errors_count, last_report_time, current_time, now,
                   update_interval, fetch_fails_in_row, since_fetch,
                   full_cycles, boot, gen_ok_time, last_attempt, stop_reason,
                   reportVars>>

\* analyze_data has no try block: what it raises reaches
\* "except Exception as e: ... errors_count += 1", and the loop goes on
AnalyzeRaises ==
    /\ pc = "analyze"
    /\ errors_count < MaxCount
    /\ errors_count' = errors_count + 1
    /\ cycle' = Append(cycle, "analyze_raised")
    /\ pc' = "loop"
    /\ UNCHANGED <<last_report_time, current_time, now, update_interval,
                   fetch_fails_in_row, since_fetch, full_cycles, boot,
                   gen_ok_time, last_attempt, stop_reason, reportVars>>

\* if self.update_excel(df, analysis): ... errors_count = 0
StoreSucceeds ==
    /\ pc = "store"
    /\ errors_count' = 0
    /\ full_cycles' = IF full_cycles < 2 THEN full_cycles + 1 ELSE 2
    /\ cycle' = Append(cycle, "store_ok")
    /\ pc' = "report"
    /\ UNCHANGED <<last_report_time, current_time, now, update_interval,
                   fetch_fails_in_row, since_fetch, boot, gen_ok_time,
                   last_attempt, stop_reason, reportVars>>

StoreFails_Counted ==
    /\ pc = "store"
    /\ errors_count' = errors_count + 1
    /\ cycle' = Append(cycle, "store_failed")
    /\ pc' = "sleep"
    /\ UNCHANGED <<last_report_time, current_time, now, update_interval,
                   fetch_fails_in_row, since_fetch, full_cycles, boot,
                   gen_ok_time, last_attempt, stop_reason, reportVars>>

StoreFails ==
    /\ pc = "store"
    /\ cycle' = Append(cycle, "store_failed")
    /\ pc' = "sleep"
    /\ UNCHANGED <<errors_count, last_report_time, current_time, now,
                   update_interval, fetch_fails_in_row, since_fetch,
                   full_cycles, boot, gen_ok_time, last_attempt, stop_reason,
                   reportVars>>

\* the else branch of the due check: "Next report in ... minutes"
ReportNotDue ==
    /\ pc = "report"
    /\ ~ReportDue(last_report_time, current_time)
    /\ cycle' = Append(cycle, "report_skipped")
    /\ pc' = "sleep"
    /\ UNCHANGED <<errors_count, last_report_time, current_time, now,
                   update_interval, fetch_fails_in_row, since_fetch,
                   full_cycles, boot, gen_ok_time, last_attempt, stop_reason,
                   reportVars>>

\* if self.report_generator.generate_report(): self.last_report_time = current_time
ReportGenerated ==
    /\ pc = "report"
    /\ ReportDue(last_report_time, current_time)
    /\ last_report_time' = current_time
    /\ gen_ok_time' = current_time
    /\ last_attempt' = "ok"
    /\ cycle' = Append(cycle, "report_ok")
    /\ pc' = "sleep"
    /\ UNCHANGED <<errors_count, current_time, now, update_interval,
                   fetch_fails_in_row, since_fetch, full_cycles, boot,
                   stop_reason, reportVars>>

ReportFails_Stamped ==
    /\ pc = "report"
    /\ ReportDue(last_report_time, current_time)
    /\ last_report_time' = current_time
    /\ last_attempt' = "failed"
    /\ cycle' = Append(cycle, "report_failed")
    /\ pc' = "sleep"
    /\ UNCHANGED <<errors_count, current_time, now, update_interval,
                   fetch_fails_in_row, since_fetch, full_cycles, boot,
                   gen_ok_time, stop_reason, reportVars>>

ReportFails ==
    /\ pc = "report"
    /\ ReportDue(last_report_time, current_time)
    /\ last_attempt' = "failed"
    /\ cycle' = Append(cycle, "report_failed")
    /\ pc' = "sleep"
    /\ UNCHANGED <<errors_count, last_report_time, current_time, now,
                   update_interval, fetch_fails_in_row, since_fetch,
                   full_cycles, boot, gen_ok_time, stop_reason, reportVars>>

\* time.sleep(update_interval)
Sleep ==
    /\ pc = "sleep"
    /\ now + update_interval <= MaxTime
    /\ now' = now + update_interval
    /\ since_fetch' = "slept"
    /\ pc' = "loop"
    /\ UNCHANGED <<errors_count, last_report_time, current_time,
                   update_interval, fetch_fails_in_row, cycle, full_cycles,
                   boot, gen_ok_time, last_attempt, stop_reason, reportVars>>

\* except KeyboardInterrupt: ... break
Interrupt ==
    /\ pc \in LoopPcs
    /\ pc' = "stopped"
    /\ stop_reason' = "interrupt"
    /\ UNCHANGED <<errors_count, last_report_time, current_time, now,
                   update_interval, fetch_fails_in_row, since_fetch, cycle,
                   full_cycles, boot, gen_ok_time, last_attempt, reportVars>>

\* the blocking calls of an iteration (the fetch with its retries and pauses,
\* the file writes) take time: the clock moves on after current_time was read
Tick ==
    /\ pc \in LoopPcs
    /\ now < MaxTime
    /\ now - current_time < MaxCycleTicks
    /\ now' = now + 1
    /\ UNCHANGED <<pc, errors_count, last_report_time, current_time,
                   update_interval, fetch_fails_in_row, since_fetch, cycle,
                   full_cycles, boot, gen_ok_time, last_attempt, stop_reason,
                   reportVars>>

Next ==
    \/ InitialReportOk
    \/ InitialReportFails
    \/ FetchFails
    \/ FetchSucceeds
    \/ ProcessFails
    \/ ProcessSucceeds
    \/ AnalyzeSucceeds
    \/ AnalyzeRaises
    \/ StoreSucceeds
    \/ StoreFails
    \/ ReportNotDue
    \/ ReportGenerated
    \/ ReportFails
    \/ Sleep
    \/ Interrupt
    \/ Tick

Spec == Init /\ [][Next]_vars

\* ======================================================== ReportGenerator
\* ------------------------------------------------------------------ bounds
SlotsPerDay == 2       \* resolution of the clock and of the file timestamps
NowStart == 16         \* the clock of ReportSpec starts at day 8, slot 0
MaxAdvance == 2        \* half days the clock of ReportSpec may advance
MaxCalls == 2          \* generate_report calls in one behaviour

\* ------------------------------------------------------- program constants
retention_days == 7    \* timedelta(days=7)
NotDigits == -1        \* a field of a file name that strptime rejects

\* A file of the archive is the sequence of the '_'-separated fields of its
\* stem; all of them match the glob crypto_analysis_*.pdf.
\* timestamp = datetime.now().strftime("%Y%m%d_%H%M%S"); f"crypto_analysis_{timestamp}.pdf"
FormatName(t) == <<"crypto", "analysis", t \div SlotsPerDay, t % SlotsPerDay>>

\* timestamp_str = report.stem.split('_')[2:]
StemTimestamp(name) == SubSeq(name, 3, Len(name))

\* datetime.strptime('_'.join(timestamp_str), "%Y%m%d_%H%M%S") raises ValueError
\* unless the string is exactly a date field and a time field
Parses(ts) ==
    /\ Len(ts) = 2
    /\ ts[1] >= 0
    /\ ts[2] >= 0
    /\ ts[2] < SlotsPerDay

ParseTime(ts) == ts[1] * SlotsPerDay + ts[2]

\* current_time - report_time > timedelta(days=7)
Expired(t, cur) == cur - t > retention_days * SlotsPerDay

WellFormed(f) == Parses(StemTimestamp(f))
ExpiredFile(f, cur) == WellFormed(f) /\ Expired(ParseTime(StemTimestamp(f)), cur)

\* The files _cleanup_old_reports unlinks when the glob yields them in `order`:
\* the try block encloses the whole for loop, so the first name strptime
\* rejects ends the iteration.
RECURSIVE CleanupRemoved(_, _)
CleanupRemoved(order, cur) ==
    IF order = <<>> THEN {}
    ELSE LET f == Head(order)
         IN IF ~WellFormed(f) THEN {}
            ELSE (IF ExpiredFile(f, cur) THEN {f} ELSE {})
                     \cup CleanupRemoved(Tail(order), cur)

\* Path.glob yields the directory's entries in the file system's order
RECURSIVE Orders(_)
Orders(S) ==
    IF S = {} THEN {<<>>}
    ELSE UNION {{<<x>> \o p : p \in Orders(S \ {x})} : x \in S}

\* what the archive directory may hold when the generator starts: reports
\* 8, 7 and 3 days old, and two names strptime rejects
ArchiveUniverse ==
    { <<"crypto", "analysis", 0, 0>>,
      <<"crypto", "analysis", 1, 0>>,
      <<"crypto", "analysis", 5, 0>>,
      <<"crypto", "analysis", NotDigits>>,
      <<"crypto", "analysis", 0, 0, NotDigits>> }

TrackerIdle ==
    /\ pc = "stopped"
    /\ errors_count = 0
    /\ last_report_time = NoTime
    /\ current_time = 0
    /\ now = 0
    /\ update_interval = report_interval
    /\ fetch_fails_in_row = 0
    /\ since_fetch = "none"
    /\ cycle = <<>>
    /\ full_cycles = 0
    /\ boot = NoTime
    /\ gen_ok_time = NoTime
    /\ last_attempt = "none"
    /\ stop_reason = "none"

ReportInit ==
    /\ archive \in SUBSET ArchiveUniverse
    /\ latest = 0
    /\ rnow = NowStart
    /\ gen_calls = 0
    /\ gen_result = FALSE
    /\ cleaned = FALSE
    /\ TrackerIdle

\* load_data returns (None, None), or the first create_pdf_report raises
\* before it writes: return False
GenerateFailsEarly ==
    /\ gen_calls < MaxCalls
    /\ gen_calls' = gen_calls + 1
    /\ gen_result' = FALSE
    /\ cleaned' = FALSE
    /\ UNCHANGED <<archive, latest, rnow, trackerVars>>

\* create_pdf_report(..., self.latest_report) has written the latest report
\* and create_pdf_report(..., archive_report) raises: return False
GenerateArchiveFails ==
    /\ gen_calls < MaxCalls
    /\ gen_calls' = gen_calls + 1
    /\ latest' = gen_calls + 1
    /\ gen_result' = FALSE
    /\ cleaned' = FALSE
    /\ UNCHANGED <<archive, rnow, trackerVars>>

\* both files written, then self._cleanup_old_reports(): return True
GenerateSucceeds ==
    /\ gen_calls < MaxCalls
    /\ gen_calls' = gen_calls + 1
    /\ latest' = gen_calls + 1
    /\ \E order \in Orders(archive \cup {FormatName(rnow)}) :
           archive' = (archive \cup {FormatName(rnow)}) \ CleanupRemoved(order, rnow)
    /\ gen_result' = TRUE
    /\ cleaned' = TRUE
    /\ UNCHANGED <<rnow, trackerVars>>

\* datetime.now() moves on between calls
AdvanceClock ==
    /\ rnow < NowStart + MaxAdvance
    /\ rnow' = rnow + 1
    /\ cleaned' = FALSE
    /\ UNCHANGED <<archive, latest, gen_calls, gen_result, trackerVars>>

ReportNext ==
    \/ GenerateFailsEarly
    \/ GenerateArchiveFails
    \/ GenerateSucceeds
    \/ AdvanceClock

ReportSpec == ReportInit /\ [][ReportNext]_vars

\* ================================================================= claims
StoredInCycle(c) == \E i \in 1..Len(c) : c[i] = "store_ok"
EndsWith(c, e) == Len(c) > 0 /\ Last(c) = e

\* C1: once 5 fetch calls in a row have failed the loop has been left, and a
\* loop that has been left never runs again (no further fetch is issued).
C1_FiveFailedFetchesStop ==
    /\ [](fetch_fails_in_row >= max_errors => pc = "stopped")
    /\ [][pc = "stopped" => pc' = "stopped" /\ cycle' = cycle]_vars

C1_Witness ==
    pc = "stopped" /\ stop_reason = "errors" /\ fetch_fails_in_row = max_errors

\* C2 (as claimed): the loop is left because of errors only when the 5 most
\* recent fetch calls all failed, a successful fetch having reset the count.
C2_StopsOnlyAfterFiveFailedFetchesInRow ==
    stop_reason = "errors" => fetch_fails_in_row >= max_errors

C4_SleepBetweenFetches ==
    pc = "loop" => since_fetch # "fetched"

\* C5 (as claimed): a transform failure abandons the iteration and is counted:
\* the consecutive-error counter goes up by one.
C5_TransformFailureCounted ==
    [][(pc = "process" /\ EndsWith(cycle', "transform_failed"))
          => errors_count' = errors_count + 1]_vars

\* C6: a store failure invokes no report in that iteration, leaves the error
\* counter and last_report_time as they were and does not stop the loop, which
\* sleeps and goes back to the top for the next iteration.
C6_StoreFailureSkipsReportOnly ==
    [][/\ (pc = "store" /\ EndsWith(cycle', "store_failed"))
            => /\ errors_count' = errors_count
               /\ last_report_time' = last_report_time
               /\ pc' = "sleep"
               /\ stop_reason' = "none"
       /\ (pc = "sleep" /\ EndsWith(cycle, "store_failed") /\ pc' # pc)
            => /\ errors_count' = errors_count
               /\ last_report_time' = last_report_time
               /\ cycle' = cycle
               /\ (pc' = "loop" \/ stop_reason' = "interrupt")]_vars

C6_Witness ==
    pc = "loop" /\ since_fetch = "slept" /\ EndsWith(cycle, "store_failed")

\* C7: an iteration generates a report exactly when no generation has succeeded
\* yet or at least report_interval lies between the time stamped on the last
\* successful generation and the start of the iteration; an iteration that
\* stores after a failed generation generates again; and last_report_time
\* changes only in a step whose generation succeeds.
C7_ReportOnlyWhenDue ==
    [][/\ (pc = "report" /\ pc' = "sleep")
            => (ReportInvoked(cycle')
                  <=> (gen_ok_time = NoTime
                         \/ current_time - gen_ok_time >= report_interval))
       /\ (pc = "report" /\ pc' = "sleep" /\ last_attempt = "failed")
            => ReportInvoked(cycle')
       /\ (last_report_time' # last_report_time)
            => \/ (pc = "init" /\ last_attempt' = "ok")
               \/ (pc = "report" /\ EndsWith(cycle', "report_ok"))]_vars

C7_Witness ==
    /\ pc = "sleep"
    /\ EndsWith(cycle, "report_skipped")
    /\ boot = NoTime
    /\ last_attempt = "ok"
    /\ full_cycles = 2

\* C8 (as claimed): a generation that runs the clean-up leaves in the archive
\* exactly the files that are malformed or at most 7 days old, whatever the
\* order in which the directory yields them.
C8_CleanupRemovesExactlyExpired ==
    [][(gen_calls' = gen_calls + 1 /\ gen_result')
          => archive' = {f \in archive \cup {FormatName(rnow)} :
                            ~ExpiredFile(f, rnow)}]_vars

\* C9 (as claimed): a failed generate_report leaves the latest report and the
\* archive as they were; a successful one overwrites the latest report and
\* adds the archive entry.
C9_FailedGenerationChangesNothing ==
    [][(gen_calls' = gen_calls + 1)
          => IF gen_result'
               THEN latest' = gen_calls' /\ FormatName(rnow) \in archive'
               ELSE latest' = latest /\ archive' = archive]_vars

\* C10 (as claimed): while the loop is running the error counter is below 5.
C10_CounterBelowMaxWhileRunning ==
    pc \in LoopPcs => errors_count < max_errors

====
